---- MODULE Spec2Model ----
(***************************************************************************)
(* Model of src/src/views/UnifiedLibraryView.tsx: the unified game-library *)
(* view.  The view enriches the raw library entries with store metadata    *)
(* (enhancedGames), filters and sorts them (filteredGames), and hands the  *)
(* result to the game grid; an ErrorBoundary wraps the whole view.         *)
(*                                                                         *)
(* JavaScript strings that the code inspects character by character (the   *)
(* titles and the search string) are sequences of one-character strings;   *)
(* store tags, filter names and ratings, which the code only compares for  *)
(* equality, are TLA+ strings.                                             *)
(***************************************************************************)
EXTENDS Integers, Sequences, FiniteSets, TLC

VARIABLES
    games,           \* useSteamLibrary().games: the raw entry array
    gameMetadata,    \* useUnifideckGames().gameMetadata: appId -> store tag
    error,           \* useSteamLibrary().error
    filter,          \* the `filter` prop
    storeFilter,     \* useState: the store dropdown's value
    searchQuery,     \* useState: the search field's value
    enhancedGames,   \* the array the first useMemo last returned
    filteredGames,   \* the array the second useMemo last returned
    refiltered,      \* the pipeline run again on its own output
    pc,              \* position of the pipeline run
    mounted,         \* UnifiedLibraryViewInner is mounted (its hooks hold state)
    gamesChanged,    \* games is another array than the first memo's dependency
    metadataChanged, \* gameMetadata is another object than the first memo's dependency
    filteredDeps,    \* filter, storeFilter, searchQuery the second memo last ran with
    hasError,        \* ErrorBoundary's state.hasError
    screen,          \* what the last render put on the screen
    grid,            \* the games prop handed to GameGrid by the last render
    renderPending,   \* a prop, hook value or state changed since the last render
    renderedError,   \* the error value the last render of the inner view read
    ranEnhance,      \* the last render invoked the first memo's callback
    ranFilter,       \* the last render invoked the second memo's callback
    thrown,          \* a render of the inner view has raised an exception
    uncaught         \* an exception left the ErrorBoundary towards the host

coreVars == <<games, gameMetadata, error, filter, storeFilter, searchQuery,
              enhancedGames, filteredGames, refiltered, pc>>

viewVars == <<mounted, gamesChanged, metadataChanged, filteredDeps, hasError,
              screen, grid, renderPending, renderedError, ranEnhance, ranFilter,
              thrown, uncaught>>

vars == <<coreVars, viewVars>>

----------------------------------------------------------------------------
(* Bounds of the model *)

MaxGames == 2

----------------------------------------------------------------------------
(* JavaScript values *)

\* the value of a lookup that finds nothing
undefined == "<undefined>"

\* truthiness of a string-or-undefined value
Truthy(v) == v # undefined /\ v # ""

StoreTypes == {"steam", "epic", "gog", "unknown"}

LibraryFilters == {"all", "installed", "great-on-deck"}

StoreFilters == {"all", "steam", "epic", "gog"}

DeckRatings == {"unsupported", "playable", "verified"}

----------------------------------------------------------------------------
(* String.prototype functions used by the pipeline *)

toLowerCaseChar(c) ==
    CASE c = "A" -> "a"
      [] c = "B" -> "b"
      [] OTHER   -> c

toLowerCase(s) == [i \in 1..Len(s) |-> toLowerCaseChar(s[i])]

RECURSIVE trimStart(_)
trimStart(s) ==
    IF s # <<>> /\ Head(s) = " " THEN trimStart(Tail(s)) ELSE s

RECURSIVE trimEnd(_)
trimEnd(s) ==
    IF s # <<>> /\ s[Len(s)] = " " THEN trimEnd(SubSeq(s, 1, Len(s) - 1)) ELSE s

trim(s) == trimEnd(trimStart(s))

includes(s, q) ==
    \E i \in 0..(Len(s) - Len(q)) : SubSeq(s, i + 1, i + Len(q)) = q

\* Collation weights of the characters: the primary weight orders the
\* letters (white space before letters), the tertiary weight orders the
\* lower-case form of a letter before its upper-case form.
primaryWeight(c) ==
    CASE c = " " -> 1
      [] c \in {"a", "A"} -> 2
      [] c \in {"b", "B"} -> 3
      [] OTHER -> 4

tertiaryWeight(c) == IF c \in {"A", "B"} THEN 1 ELSE 0

RECURSIVE compareWeights(_, _)
compareWeights(u, v) ==
    IF u = <<>> /\ v = <<>> THEN 0
    ELSE IF u = <<>> THEN -1
    ELSE IF v = <<>> THEN 1
    ELSE IF Head(u) < Head(v) THEN -1
    ELSE IF Head(u) > Head(v) THEN 1
    ELSE compareWeights(Tail(u), Tail(v))

\* a.localeCompare(b): negative, zero or positive.  The strings are compared
\* on their primary weights first and on their tertiary weights when the
\* primary weights are all equal.
localeCompare(a, b) ==
    LET p == compareWeights([i \in 1..Len(a) |-> primaryWeight(a[i])],
                            [i \in 1..Len(b) |-> primaryWeight(b[i])])
    IN  IF p # 0 THEN p
        ELSE compareWeights([i \in 1..Len(a) |-> tertiaryWeight(a[i])],
                            [i \in 1..Len(b) |-> tertiaryWeight(b[i])])

----------------------------------------------------------------------------
(* Array.prototype.sort with the comparator of line 124 *)

titleCompareSwapped(a, b) == localeCompare(b.title, a.title)

titleCompare(a, b) == localeCompare(a.title, b.title)

RECURSIVE insertSorted(_, _)
insertSorted(x, s) ==
    IF s = <<>> THEN <<x>>
    ELSE IF titleCompare(Head(s), x) <= 0
         THEN <<Head(s)>> \o insertSorted(x, Tail(s))
         ELSE <<x>> \o s

RECURSIVE insertBeforeEqual(_, _)
insertBeforeEqual(x, s) ==
    IF s = <<>> THEN <<x>>
    ELSE IF titleCompare(Head(s), x) < 0
         THEN <<Head(s)>> \o insertBeforeEqual(x, Tail(s))
         ELSE <<x>> \o s

RECURSIVE sortTiesReversedUpTo(_, _)
sortTiesReversedUpTo(arr, n) ==
    IF n = 0 THEN <<>> ELSE insertBeforeEqual(arr[n], sortTiesReversedUpTo(arr, n - 1))

sortTiesReversed(arr) == sortTiesReversedUpTo(arr, Len(arr))

RECURSIVE sortUpTo(_, _)
sortUpTo(arr, n) ==
    IF n = 0 THEN <<>> ELSE insertSorted(arr[n], sortUpTo(arr, n - 1))

\* the elements of arr in ascending comparator order, equal elements in
\* their order in arr (Array.prototype.sort is stable)
sort(arr) == sortUpTo(arr, Len(arr))

----------------------------------------------------------------------------
(* The first useMemo: enhancedGames *)

getStoreForApp(metadata, appId) ==
    IF appId \in DOMAIN metadata THEN metadata[appId] ELSE undefined

enhanceOnlyUnknown(game, metadata) ==
    LET store == getStoreForApp(metadata, game.appId)
    IN  IF Truthy(store) /\ game.store = "unknown"
        THEN [ret |-> [game EXCEPT !.store = store], arg |-> game]
        ELSE [ret |-> game, arg |-> game]

\* The callback of games.map: ret is the value it returns, arg is the
\* object it was given as that object is when the callback returns.
enhanceGame(game, metadata) ==
    LET store == getStoreForApp(metadata, game.appId)
    IN  IF Truthy(store)
        THEN [ret |-> [game EXCEPT !.store = store], arg |-> game]
        ELSE [ret |-> game, arg |-> game]

\* result is the array the memo returns, input is the games array as the
\* computation leaves it
computeEnhancedGames(gs, metadata) ==
    [result |-> [i \in 1..Len(gs) |-> enhanceGame(gs[i], metadata).ret],
     input  |-> [i \in 1..Len(gs) |-> enhanceGame(gs[i], metadata).arg]]

----------------------------------------------------------------------------
(* The second useMemo: filteredGames.  An array under construction is a   *)
(* record: items are its elements, alias tells whether it is the very     *)
(* array object enhancedGames (and not a fresh array).                    *)

noCopy(arr) == [items |-> arr, alias |-> TRUE]

\* [...enhancedGames]
spread(arr) == [items |-> arr, alias |-> FALSE]

\* Array.prototype.filter returns a new array
isInstalledOnly(r) ==
    [items |-> SelectSeq(r.items, LAMBDA game : game.isInstalled),
     alias |-> FALSE]

greatOnDeckOnly(r) ==
    [items |-> SelectSeq(r.items, LAMBDA game :
                   game.deckVerified = "verified" \/ game.deckVerified = "playable"),
     alias |-> FALSE]

mainFilterFallThrough(r, f) ==
    CASE f = "great-on-deck" -> greatOnDeckOnly(r)
      [] OTHER               -> r

\* switch (filter)
mainFilter(r, f) ==
    CASE f = "installed"     -> isInstalledOnly(r)
      [] f = "great-on-deck" -> greatOnDeckOnly(r)
      [] OTHER               -> r

storeFilterAlways(r, sf) ==
    [items |-> SelectSeq(r.items, LAMBDA game : game.store = sf),
     alias |-> FALSE]

applyStoreFilter(r, sf) ==
    IF sf # "all"
    THEN [items |-> SelectSeq(r.items, LAMBDA game : game.store = sf),
          alias |-> FALSE]
    ELSE r

applySearchFilter(r, sq) ==
    IF Len(trim(sq)) > 0
    THEN LET query == toLowerCase(sq)
         IN  [items |-> SelectSeq(r.items, LAMBDA game :
                            includes(toLowerCase(game.title), query)),
              alias |-> FALSE]
    ELSE r

\* result.sort(...) sorts the array in place
sortByTitle(r) == [items |-> sort(r.items), alias |-> r.alias]

\* result is the array the memo returns, input is the enhancedGames array
\* as the computation leaves it
computeFilteredGames(enhanced, f, sf, sq) ==
    LET r == sortByTitle(
                 applySearchFilter(
                     applyStoreFilter(
                         mainFilter(spread(enhanced), f), sf), sq))
    IN  [result |-> r.items,
         input  |-> IF r.alias THEN r.items ELSE enhanced]


----------------------------------------------------------------------------
(* The two memos' dependency lists, the error branch and the boundary *)

\* useMemo(..., [games, gameMetadata]): an array or object dependency is
\* compared by identity with the one of the last computation
enhancedDepsChanged(gChanged, mChanged) == gChanged \/ mChanged

filteredDepsWithoutSearch(enhancedRecomputed, deps, f, sf, sq) ==
    \/ enhancedRecomputed
    \/ deps.filter # f
    \/ deps.storeFilter # sf

\* useMemo(..., [enhancedGames, filter, storeFilter, searchQuery]): the
\* strings are compared by value
filteredDepsChanged(enhancedRecomputed, deps, f, sf, sq) ==
    \/ enhancedRecomputed
    \/ deps.filter # f
    \/ deps.storeFilter # sf
    \/ deps.searchQuery # sq

errorIgnored(err) == FALSE

\* if (error)
errorBranch(err) == Truthy(err)

derivedStateWithoutFlag(err) == [hasError |-> FALSE, error |-> err]

getDerivedStateFromError(err) == [hasError |-> TRUE, error |-> err]

\* ErrorBoundary.render
boundaryRender(flag) == IF flag THEN "fallback" ELSE "children"

NoGrid == [shown |-> FALSE, games |-> <<>>]

NoDeps == [filter |-> "all", storeFilter |-> "all", searchQuery |-> <<>>]

----------------------------------------------------------------------------
(* The pipeline run once on given inputs: enrich, filter and sort, then   *)
(* filter and sort the output again under the same filter state.          *)

Titles == {<<"a">>, <<"A">>, <<"B">>, <<"a", " ", "b">>}

SortTitles == Titles \cup {<<"b">>, <<"a", "b">>}

Queries == {<<>>, <<" ">>, <<"a">>, <<" ", "a">>, <<"B", " ">>, <<" ", "b">>}

Entries(ids, titles, installed, ratings, stores) ==
    [appId : ids, title : titles, isInstalled : installed,
     deckVerified : ratings, store : stores]

\* the arrays of at most MaxGames entries whose i-th entry has appId i
GameArrays(titles, installed, ratings, stores) ==
    UNION {{gs \in [1..n -> Entries(1..n, titles, installed, ratings, stores)] :
               \A i \in 1..n : gs[i].appId = i} : n \in 0..MaxGames}

Metadata(tags) == UNION {[ids -> tags] : ids \in SUBSET (1..MaxGames)}

ViewIdle ==
    /\ mounted = FALSE
    /\ gamesChanged = FALSE
    /\ metadataChanged = FALSE
    /\ filteredDeps = NoDeps
    /\ hasError = FALSE
    /\ screen = "none"
    /\ grid = NoGrid
    /\ renderPending = FALSE
    /\ renderedError = undefined
    /\ ranEnhance = FALSE
    /\ ranFilter = FALSE
    /\ thrown = FALSE
    /\ uncaught = FALSE

\* entries of every store, attributed or not, under every store filter
InitStores ==
    /\ games \in GameArrays({<<"a">>}, BOOLEAN, {"verified"}, StoreTypes)
    /\ gameMetadata \in Metadata({"steam", "epic", "unknown"})
    /\ filter \in {"all", "installed"}
    /\ storeFilter \in StoreFilters
    /\ searchQuery = <<>>

\* entries of every installation state and rating, under every category
\* and search string
InitCategories ==
    /\ games \in GameArrays(Titles, BOOLEAN, DeckRatings, {"steam"})
    /\ gameMetadata = <<>>
    /\ filter \in LibraryFilters
    /\ storeFilter = "all"
    /\ searchQuery \in Queries

\* entries of many titles, attributed or not, under every search string
InitTitles ==
    /\ games \in GameArrays(SortTitles, {TRUE}, {"verified"}, {"steam", "unknown"})
    /\ gameMetadata \in Metadata({"epic"})
    /\ filter = "all"
    /\ storeFilter \in {"all", "epic"}
    /\ searchQuery \in Queries

InitCore ==
    /\ InitStores \/ InitCategories \/ InitTitles
    /\ error = undefined
    /\ enhancedGames = <<>>
    /\ filteredGames = <<>>
    /\ refiltered = <<>>
    /\ pc = "start"
    /\ ViewIdle

Enrich ==
    /\ pc = "start"
    /\ LET m == computeEnhancedGames(games, gameMetadata)
       IN  /\ enhancedGames' = m.result
           /\ games' = m.input
    /\ pc' = "enhanced"
    /\ UNCHANGED <<gameMetadata, error, filter, storeFilter, searchQuery,
                   filteredGames, refiltered, viewVars>>

Apply ==
    /\ pc = "enhanced"
    /\ LET m == computeFilteredGames(enhancedGames, filter, storeFilter, searchQuery)
       IN  /\ filteredGames' = m.result
           /\ enhancedGames' = m.input
    /\ pc' = "filtered"
    /\ UNCHANGED <<games, gameMetadata, error, filter, storeFilter, searchQuery,
                   refiltered, viewVars>>

Reapply ==
    /\ pc = "filtered"
    /\ LET m == computeFilteredGames(filteredGames, filter, storeFilter, searchQuery)
       IN  /\ refiltered' = m.result
           /\ filteredGames' = m.input
    /\ pc' = "refiltered"
    /\ UNCHANGED <<games, gameMetadata, error, filter, storeFilter, searchQuery,
                   enhancedGames, viewVars>>

NextCore == Enrich \/ Apply \/ Reapply

SpecCore == InitCore /\ [][NextCore]_vars

----------------------------------------------------------------------------
(* The mounted view: the providers and the user change the inputs, React  *)
(* renders.                                                               *)

Game(id, t, inst, rating, st) ==
    [appId |-> id, title |-> t, isInstalled |-> inst, deckVerified |-> rating,
     store |-> st]

ViewGames ==
    {<<>>,
     <<Game(1, <<"B">>, TRUE, "verified", "unknown"),
       Game(2, <<"a">>, FALSE, "unsupported", "steam")>>,
     <<Game(1, <<"a">>, TRUE, "playable", "steam"),
       Game(2, <<"a">>, TRUE, "unsupported", "unknown")>>}

ViewMetadata == {<<>>, [id \in {1} |-> "epic"]}

ViewQueries == {<<>>, <<"a">>}

Init ==
    /\ games = <<>>
    /\ gameMetadata = <<>>
    /\ error = undefined
    /\ filter \in LibraryFilters
    /\ storeFilter = "all"
    /\ searchQuery = <<>>
    /\ enhancedGames = <<>>
    /\ filteredGames = <<>>
    /\ refiltered = <<>>
    /\ pc = "view"
    /\ mounted = FALSE
    /\ gamesChanged = FALSE
    /\ metadataChanged = FALSE
    /\ filteredDeps = NoDeps
    /\ hasError = FALSE
    /\ screen = "none"
    /\ grid = NoGrid
    /\ renderPending = TRUE
    /\ renderedError = undefined
    /\ ranEnhance = FALSE
    /\ ranFilter = FALSE
    /\ thrown = FALSE
    /\ uncaught = FALSE

\* useSteamLibrary delivers a new games array
GamesLoaded ==
    /\ ~uncaught
    /\ \E gs \in ViewGames : games' = gs
    /\ error' = undefined
    /\ gamesChanged' = TRUE
    /\ renderPending' = TRUE
    /\ UNCHANGED <<gameMetadata, filter, storeFilter, searchQuery, enhancedGames,
                   filteredGames, refiltered, pc, mounted, metadataChanged,
                   filteredDeps, hasError, screen, grid, renderedError,
                   ranEnhance, ranFilter, thrown, uncaught>>

\* useSteamLibrary reports an error
LoadFailed ==
    /\ ~uncaught
    /\ error = undefined
    /\ error' = "load failed"
    /\ renderPending' = TRUE
    /\ UNCHANGED <<games, gameMetadata, filter, storeFilter, searchQuery,
                   enhancedGames, filteredGames, refiltered, pc, mounted,
                   gamesChanged, metadataChanged, filteredDeps, hasError, screen,
                   grid, renderedError, ranEnhance, ranFilter, thrown, uncaught>>

\* useUnifideckGames delivers a new metadata object
MetadataLoaded ==
    /\ ~uncaught
    /\ \E m \in ViewMetadata : gameMetadata' = m
    /\ metadataChanged' = TRUE
    /\ renderPending' = TRUE
    /\ UNCHANGED <<games, error, filter, storeFilter, searchQuery, enhancedGames,
                   filteredGames, refiltered, pc, mounted, gamesChanged,
                   filteredDeps, hasError, screen, grid, renderedError,
                   ranEnhance, ranFilter, thrown, uncaught>>

\* the parent passes another filter prop
SetFilter ==
    /\ ~uncaught
    /\ \E f \in LibraryFilters \ {filter} : filter' = f
    /\ renderPending' = TRUE
    /\ UNCHANGED <<games, gameMetadata, error, storeFilter, searchQuery,
                   enhancedGames, filteredGames, refiltered, pc, mounted,
                   gamesChanged, metadataChanged, filteredDeps, hasError, screen,
                   grid, renderedError, ranEnhance, ranFilter, thrown, uncaught>>

\* the Dropdown's onChange
SetStoreFilter ==
    /\ screen = "grid"
    /\ \E option \in StoreFilters \ {storeFilter} : storeFilter' = option
    /\ renderPending' = TRUE
    /\ UNCHANGED <<games, gameMetadata, error, filter, searchQuery,
                   enhancedGames, filteredGames, refiltered, pc, mounted,
                   gamesChanged, metadataChanged, filteredDeps, hasError, screen,
                   grid, renderedError, ranEnhance, ranFilter, thrown, uncaught>>

\* the TextField's onChange
SetSearchQuery ==
    /\ screen = "grid"
    /\ \E value \in ViewQueries \ {searchQuery} : searchQuery' = value
    /\ renderPending' = TRUE
    /\ UNCHANGED <<games, gameMetadata, error, filter, storeFilter,
                   enhancedGames, filteredGames, refiltered, pc, mounted,
                   gamesChanged, metadataChanged, filteredDeps, hasError, screen,
                   grid, renderedError, ranEnhance, ranFilter, thrown, uncaught>>

\* The ErrorBoundary has caught an error: it renders the fallback and not
\* its children.
RenderFallback ==
    /\ renderPending
    /\ ~uncaught
    /\ boundaryRender(hasError) = "fallback"
    /\ screen' = "boundaryError"
    /\ grid' = NoGrid
    /\ ranEnhance' = FALSE
    /\ ranFilter' = FALSE
    /\ renderPending' = FALSE
    /\ UNCHANGED <<coreVars, mounted, gamesChanged, metadataChanged, filteredDeps,
                   hasError, renderedError, thrown, uncaught>>

\* A render of UnifiedLibraryViewInner under the ErrorBoundary.  Both memos
\* are evaluated first (each runs its callback on the first render and
\* whenever a dependency changed), then the error branch is taken or the
\* grid is rendered.  A memo callback that runs, or the rendering of
\* GameGrid, may raise an exception.
RenderInner ==
    /\ renderPending
    /\ ~uncaught
    /\ boundaryRender(hasError) = "children"
    /\ LET runE == ~mounted \/ enhancedDepsChanged(gamesChanged, metadataChanged)
           mE   == computeEnhancedGames(games, gameMetadata)
           eg   == IF runE THEN mE.result ELSE enhancedGames
           runF == ~mounted \/ filteredDepsChanged(runE, filteredDeps, filter,
                                                   storeFilter, searchQuery)
           mF   == computeFilteredGames(eg, filter, storeFilter, searchQuery)
           fg   == IF runF THEN mF.result ELSE filteredGames
       IN  /\ games' = IF runE THEN mE.input ELSE games
           /\ ranEnhance' = runE
           /\ ranFilter' = runF
           /\ renderedError' = error
           /\ renderPending' = FALSE
           /\ \E fault \in {"none", "memo", "grid"} :
                /\ fault = "memo" => runE \/ runF
                /\ fault = "grid" => ~errorBranch(error)
                /\ IF fault = "none"
                   THEN
                     /\ enhancedGames' = IF runF THEN mF.input ELSE eg
                     /\ filteredGames' = fg
                     /\ filteredDeps' = IF runF
                                        THEN [filter |-> filter,
                                              storeFilter |-> storeFilter,
                                              searchQuery |-> searchQuery]
                                        ELSE filteredDeps
                     /\ gamesChanged' = FALSE
                     /\ metadataChanged' = FALSE
                     /\ mounted' = TRUE
                     /\ screen' = IF errorBranch(error) THEN "loadError" ELSE "grid"
                     /\ grid' = IF errorBranch(error) THEN NoGrid
                                ELSE [shown |-> TRUE, games |-> fg]
                     /\ UNCHANGED <<hasError, thrown, uncaught, storeFilter,
                                    searchQuery>>
                   ELSE
                     \* the exception unmounts the inner view; the boundary
                     \* derives its state from the error and renders again
                     LET st == getDerivedStateFromError("render error")
                     IN  /\ thrown' = TRUE
                         /\ hasError' = st.hasError
                         /\ IF boundaryRender(st.hasError) = "fallback"
                            THEN screen' = "boundaryError" /\ uncaught' = FALSE
                            ELSE screen' = "none" /\ uncaught' = TRUE
                         /\ grid' = NoGrid
                         /\ mounted' = FALSE
                         /\ enhancedGames' = <<>>
                         /\ filteredGames' = <<>>
                         /\ filteredDeps' = NoDeps
                         /\ gamesChanged' = FALSE
                         /\ metadataChanged' = FALSE
                         /\ storeFilter' = "all"
                         /\ searchQuery' = <<>>
    /\ UNCHANGED <<gameMetadata, error, filter, refiltered, pc>>

Next ==
    \/ GamesLoaded
    \/ LoadFailed
    \/ MetadataLoaded
    \/ SetFilter
    \/ SetStoreFilter
    \/ SetSearchQuery
    \/ RenderFallback
    \/ RenderInner

Spec == Init /\ [][Next]_vars

----------------------------------------------------------------------------
(* Properties of the pipeline (SpecCore) *)

\* the store tag the attribution table gives an entry, its own tag when the
\* table has no entry for it
AttributedStore(game) ==
    IF game.appId \in DOMAIN gameMetadata THEN gameMetadata[game.appId]
    ELSE game.store

AppIds(arr) == {arr[i].appId : i \in 1..Len(arr)}

\* C1: the enriched array has the length of the raw array, and its i-th
\* entry is the i-th raw entry with the store tag replaced by the
\* attributed store when the entry's id is in the attribution table, and
\* unchanged otherwise.
C1_EnrichKeepsEntriesOverridesStore ==
    pc = "enhanced" =>
        /\ Len(enhancedGames) = Len(games)
        /\ \A i \in 1..Len(games) :
               enhancedGames[i] = [games[i] EXCEPT !.store = AttributedStore(games[i])]

C1_Witness ==
    /\ pc = "enhanced"
    /\ \E i, j \in 1..Len(games) :
          /\ games[i].appId \in DOMAIN gameMetadata
          /\ games[i].store \notin {"unknown", gameMetadata[games[i].appId]}
          /\ enhancedGames[i].store = gameMetadata[games[i].appId]
          /\ games[j].appId \notin DOMAIN gameMetadata
          /\ enhancedGames[j].store = games[j].store

\* C2: under category "installed" every entry of the output is installed;
\* under "great-on-deck" every entry of the output is rated playable or
\* verified; under "all" the category stage keeps every entry.
C2_CategoryFilter ==
    pc = "filtered" =>
        /\ filter = "installed" =>
               \A i \in 1..Len(filteredGames) : filteredGames[i].isInstalled
        /\ filter = "great-on-deck" =>
               \A i \in 1..Len(filteredGames) :
                   filteredGames[i].deckVerified \in {"playable", "verified"}
        /\ filter = "all" =>
               mainFilter(spread(enhancedGames), filter).items = enhancedGames

C2_Witness ==
    /\ pc = "filtered"
    /\ filter = "installed"
    /\ Len(trim(searchQuery)) > 0
    /\ Len(filteredGames) > 0
    /\ \E i \in 1..Len(enhancedGames) :
          /\ ~enhancedGames[i].isInstalled
          /\ includes(toLowerCase(enhancedGames[i].title), toLowerCase(searchQuery))

\* C3: under a store filter other than "all" the output holds exactly the
\* entries that pass the other stages and whose store tag after enrichment
\* is the selected store: an entry attributed to the selected store is kept
\* whatever its raw tag, an entry attributed to another store is removed;
\* under "all" the output holds every entry that passes the other stages.
C3_StoreFilter ==
    pc = "filtered" =>
        LET others == computeFilteredGames(enhancedGames, filter, "all",
                                           searchQuery).result
        IN  /\ storeFilter = "all" => filteredGames = others
            /\ storeFilter # "all" =>
                  /\ filteredGames =
                         SelectSeq(others, LAMBDA game : game.store = storeFilter)
                  /\ \A i \in 1..Len(games) :
                         games[i].appId \in DOMAIN gameMetadata =>
                             (games[i].appId \in AppIds(filteredGames)
                                  <=> /\ gameMetadata[games[i].appId] = storeFilter
                                      /\ games[i].appId \in AppIds(others))

C3_Witness ==
    /\ pc = "filtered"
    /\ storeFilter = "epic"
    /\ \E i, j \in 1..Len(games) :
          /\ games[i].store = "unknown"
          /\ games[i].appId \in DOMAIN gameMetadata
          /\ gameMetadata[games[i].appId] = "epic"
          /\ games[i].appId \in AppIds(filteredGames)
          /\ games[j].store = "epic"
          /\ games[j].appId \in DOMAIN gameMetadata
          /\ gameMetadata[games[j].appId] = "steam"
          /\ games[j].appId \notin AppIds(filteredGames)

\* C4: when the trimmed search string is empty the search stage keeps every
\* entry; otherwise the output holds exactly the entries passing the other
\* stages whose lower-cased title contains the trimmed, lower-cased search
\* string.
C4_SearchMatchesTrimmedQuery ==
    pc = "filtered" =>
        LET others == computeFilteredGames(enhancedGames, filter, storeFilter,
                                           <<>>).result
            q == toLowerCase(trim(searchQuery))
        IN  filteredGames =
                IF q = <<>> THEN others
                ELSE SelectSeq(others, LAMBDA game :
                         includes(toLowerCase(game.title), q))

\* the index of an entry in enhancedGames
IndexInEnhanced(game) ==
    CHOOSE k \in 1..Len(enhancedGames) : enhancedGames[k].appId = game.appId

\* C5: the output is in ascending order of title under the title
\* comparison, and two entries of the output whose titles compare equal
\* are in the order they have in the input.
C5_SortedAndStable ==
    pc = "filtered" =>
        \A i, j \in 1..Len(filteredGames) :
            i < j =>
               /\ localeCompare(filteredGames[i].title, filteredGames[j].title) <= 0
               /\ localeCompare(filteredGames[i].title, filteredGames[j].title) = 0
                      => IndexInEnhanced(filteredGames[i])
                            < IndexInEnhanced(filteredGames[j])

C5_Witness ==
    /\ pc = "filtered"
    /\ \E i, j \in 1..Len(filteredGames) :
          /\ i < j
          /\ filteredGames[i].title = filteredGames[j].title
          /\ filteredGames[i].store # filteredGames[j].store
          /\ filteredGames[i].appId < filteredGames[j].appId

\* C6: the pipeline run on its own output under the same filter state
\* returns that output.
C6_Idempotent == pc = "refiltered" => refiltered = filteredGames

C6_Witness ==
    /\ pc = "refiltered"
    /\ refiltered = filteredGames
    /\ Len(refiltered) >= 2
    /\ refiltered # enhancedGames
    /\ Len(trim(searchQuery)) > 0

\* C7: computing enhancedGames leaves the raw games array and its entries
\* as they were, and computing filteredGames leaves the array it is given
\* as it was.
C7_InputsUnchanged ==
    [][/\ games' = games
       /\ pc = "enhanced" => enhancedGames' = enhancedGames
       /\ pc = "filtered" => filteredGames' = filteredGames]_vars

C7_Witness ==
    /\ pc = "filtered"
    /\ Len(filteredGames) = Len(enhancedGames)
    /\ filteredGames # enhancedGames
    /\ \E i \in 1..Len(games) : enhancedGames[i].store # games[i].store

----------------------------------------------------------------------------
(* Properties of the mounted view (Spec) *)

\* what the pipeline returns for the current inputs
CurrentResult ==
    computeFilteredGames(computeEnhancedGames(games, gameMetadata).result,
                         filter, storeFilter, searchQuery).result

C9_BoundaryCatches ==
    thrown =>
        /\ hasError
        /\ screen = "boundaryError"
        /\ ~grid.shown
        /\ ~uncaught

\* a render after the one that raised the exception: the error value
\* changed since the inner view last read it, and the change was rendered
C9_Witness ==
    /\ thrown
    /\ screen = "boundaryError"
    /\ ~renderPending
    /\ error # renderedError

\* C10: the games handed to the grid by a render on the non-error path are
\* the pipeline's result for the entries, the metadata and the filter
\* state of that render.
C10_GridIsCurrent ==
    (screen = "grid" /\ ~renderPending) => grid.games = CurrentResult

C10_Witness ==
    /\ screen = "grid"
    /\ ~renderPending
    /\ ~ranEnhance
    /\ ranFilter
    /\ searchQuery # <<>>
    /\ storeFilter # "all"
    /\ Len(games) > Len(grid.games)
    /\ Len(grid.games) > 0
    /\ grid.games # SubSeq(enhancedGames, 1, Len(grid.games))

====
